---- MODULE Spec2Model ----
(***************************************************************************)
(* Model of bot.py: a Telegram bot relaying chat messages to the Gemini    *)
(* generateContent API with a bounded per-chat history.                    *)
(*                                                                         *)
(* A text is a sequence of one-character strings.  A deque object lives in *)
(* `heap` under an object id; `chat_histories` maps a chat id to the id of *)
(* its deque, or to None.  Every handle_message invocation is a handler h  *)
(* whose position `pc` moves between the awaits of the coroutine.          *)
(***************************************************************************)
EXTENDS Integers, Sequences, FiniteSets, TLC

VARIABLES
    TELEGRAM_BOT_TOKEN, \* bot.py:15  TRUE iff the variable is set and non-empty
    GEMINI_API_KEY,     \* bot.py:16  TRUE iff the variable is set and non-empty
    MAX_HISTORY,        \* bot.py:25
    MAX_REPLY_CHARS,    \* bot.py:26
    chat_histories,     \* bot.py:32  chat id -> object id of its deque, or None
    heap,               \* the deque objects created by get_history: id -> turns
    handlers,           \* the handle_message coroutines: h -> frame
    messages,           \* number of handle_message invocations so far
    fn_in,              \* argument of the pure function under check
    fn_out              \* its result

vars == <<TELEGRAM_BOT_TOKEN, GEMINI_API_KEY, MAX_HISTORY, MAX_REPLY_CHARS,
          chat_histories, heap, handlers, messages, fn_in, fn_out>>

config == <<TELEGRAM_BOT_TOKEN, GEMINI_API_KEY, MAX_HISTORY, MAX_REPLY_CHARS>>

-----------------------------------------------------------------------------
(* Bounds of the model *)

MaxMsgs == 2        \* handle_message invocations in one behaviour
MaxHistoryCfg == 2  \* MAX_HISTORY ranges over 0..MaxHistoryCfg
MaxReplyCfg == 3    \* MAX_REPLY_CHARS ranges over -1..MaxReplyCfg (trim checks)
MaxLen == 4         \* longest text given to trim_for_telegram

Chats == {1, 2}
Handlers == 1..MaxMsgs
None == 0

-----------------------------------------------------------------------------
(* Texts *)

Space == " "
Ellipsis == "~"     \* stands for the one-character suffix U+2026

IsSpace(ch) == ch = Space

RECURSIVE rstrip(_)
rstrip(s) ==
    IF s = <<>> THEN <<>>
    ELSE IF IsSpace(s[Len(s)]) THEN rstrip(SubSeq(s, 1, Len(s) - 1))
    ELSE s

RECURSIVE lstrip(_)
lstrip(s) ==
    IF s = <<>> THEN <<>>
    ELSE IF IsSpace(s[1]) THEN lstrip(SubSeq(s, 2, Len(s)))
    ELSE s

strip(s) == rstrip(lstrip(s))

Max(a, b) == IF a >= b THEN a ELSE b

\* text[:n], a negative n counting from the end
Prefix(s, n) ==
    IF n >= 0 THEN SubSeq(s, 1, IF n <= Len(s) THEN n ELSE Len(s))
    ELSE SubSeq(s, 1, Max(0, Len(s) + n))

suffix == <<Ellipsis>>

\* cut of trim_for_telegram
cutNoReserve == MAX_REPLY_CHARS
cut == MAX_REPLY_CHARS - Len(suffix)

\* max(0, cut)
ClampNone(n) == n
Clamp(n) == Max(0, n)

trim_for_telegram(text) ==
    IF Len(text) <= MAX_REPLY_CHARS THEN text
    ELSE rstrip(Prefix(text, Clamp(cut))) \o suffix

-----------------------------------------------------------------------------
(* The fixed reply texts, abbreviated: each stands for the literal of the  *)
(* line named beside it and keeps a space inside, as the literal has.      *)

DigitChar == <<"0", "1", "2", "3", "4", "5", "6", "7", "8", "9">>

\* f"{status_code}" of a three-digit status code
Digits(n) == <<DigitChar[(n \div 100) + 1], DigitChar[((n \div 10) % 10) + 1],
               DigitChar[(n % 10) + 1]>>

ConfigErrorText == <<"C", Space, "e">>                          \* bot.py:116
EmptyReplyText == <<"G", Space, "e">>                           \* bot.py:131
ApiErrorText(code) == <<"A", Space, "(">> \o Digits(code) \o <<")">>  \* bot.py:133-136
TimeoutText == <<"T", Space, "o">>                              \* bot.py:138
GenericErrorText == <<"U", Space, "e">>                         \* bot.py:140

-----------------------------------------------------------------------------
(* deque(maxlen=MAX_HISTORY) *)

Turn(role, text) == [role |-> role, parts |-> <<[text |-> text]>>]

\* variants of dequeAppend: no maxlen; a full deque refusing the new item
dequeAppendUnbounded(d, x) == d \o <<x>>
dequeAppendDropNew(d, x) == IF Len(d) >= MAX_HISTORY THEN d ELSE d \o <<x>>

\* variant of dequeAppend: a full deque drops its rightmost item
dequeAppendDropLast(d, x) ==
    IF MAX_HISTORY = 0 THEN <<>>
    ELSE IF Len(d) >= MAX_HISTORY THEN SubSeq(d, 1, Len(d) - 1) \o <<x>>
    ELSE d \o <<x>>

\* deque.append on a deque of maxlen MAX_HISTORY: a full deque drops its
\* leftmost item first; a deque of maxlen 0 stays empty.
dequeAppend(d, x) ==
    IF MAX_HISTORY = 0 THEN <<>>
    ELSE IF Len(d) >= MAX_HISTORY THEN SubSeq(d, 2, Len(d)) \o <<x>>
    ELSE d \o <<x>>

NewId == Cardinality(DOMAIN heap) + 1

\* get_history(chat_id): the store, the heap and the deque returned
get_history(chat_id) ==
    LET history == chat_histories[chat_id]
    IN  IF history = None
        THEN [store |-> [chat_histories EXCEPT ![chat_id] = NewId],
              heap |-> [o \in DOMAIN heap \cup {NewId} |->
                           IF o = NewId THEN <<>> ELSE heap[o]],
              history |-> NewId]
        ELSE [store |-> chat_histories, heap |-> heap, history |-> history]

\* variant of pop: the whole store is emptied
popAll(chat_id) == [c \in Chats |-> None]

\* chat_histories.pop(chat_id, None)
pop(chat_id) == [chat_histories EXCEPT ![chat_id] = None]

-----------------------------------------------------------------------------
(* JSON values as Python sees them after response.json(): a value is a     *)
(* record whose field t is its Python type; a dict carries the function    *)
(* from its keys, a list its items, a str its text.                        *)

JNull == [t |-> "null"]
JNum(n) == [t |-> "num", num |-> n]
JStr(s) == [t |-> "str", str |-> s]
JList(q) == [t |-> "list", items |-> q]
JDict(f) == [t |-> "dict", keys |-> f]

\* The outcome of evaluating a Python expression: a value, or an exception
Ok(x) == [exc |-> "", val |-> x]
Raise(e) == [exc |-> e, val |-> JNull]

\* x[key] for a str key
GetKey(x, key) ==
    IF x.t = "dict"
    THEN IF key \in DOMAIN x.keys THEN Ok(x.keys[key]) ELSE Raise("KeyError")
    ELSE Raise("TypeError")

\* x[0]
GetFirst(x) ==
    IF x.t = "list"
    THEN IF Len(x.items) > 0 THEN Ok(x.items[1]) ELSE Raise("IndexError")
    ELSE IF x.t = "str"
    THEN IF Len(x.str) > 0 THEN Ok(JStr(<<x.str[1]>>)) ELSE Raise("IndexError")
    ELSE IF x.t = "dict" THEN Raise("KeyError")
    ELSE Raise("TypeError")

\* the items `for part in parts` visits (a dict gives its keys, a str its
\* characters), or TypeError when parts is not iterable
Iterate(x) ==
    IF x.t = "list" THEN Ok(x.items)
    ELSE IF x.t = "str" THEN Ok([i \in 1..Len(x.str) |-> JStr(<<x.str[i]>>)])
    ELSE IF x.t = "dict"
    THEN Ok([i \in 1..Cardinality(DOMAIN x.keys) |-> JStr(<<"k">>)])
    ELSE Raise("TypeError")

\* part.get("text")
GetText(part) ==
    IF part.t = "dict"
    THEN IF "text" \in DOMAIN part.keys THEN Ok(part.keys["text"]) ELSE Ok(JNull)
    ELSE Raise("AttributeError")

\* `if text:`
Truthy(x) ==
    CASE x.t = "null" -> FALSE
      [] x.t = "num" -> x.num # 0
      [] x.t = "str" -> Len(x.str) > 0
      [] x.t = "list" -> Len(x.items) > 0
      [] x.t = "dict" -> DOMAIN x.keys # {}

\* variant of AddText: without the `if text:` test
AddTextAlways(texts, text) == Append(texts, text)

\* one round of the loop of extract_text: texts is the list so far
AddText(texts, text) == IF Truthy(text) THEN Append(texts, text) ELSE texts

RECURSIVE CollectTexts(_, _, _)
CollectTexts(items, i, texts) ==
    IF i > Len(items) THEN Ok(texts)
    ELSE IF items[i].t # "dict" THEN GetText(items[i])
    ELSE CollectTexts(items, i + 1, AddText(texts, GetText(items[i]).val))

\* each step of extract_text on the outcome r of the step before it: an
\* exception raised earlier goes through
ThenCollect(r) == IF r.exc # "" THEN r ELSE CollectTexts(r.val, 1, <<>>)

\* "".join(texts): every item has to be a str
RECURSIVE Concat(_, _)
Concat(texts, i) ==
    IF i > Len(texts) THEN <<>> ELSE texts[i].str \o Concat(texts, i + 1)

Join(texts) ==
    IF \E i \in 1..Len(texts) : texts[i].t # "str" THEN Raise("TypeError")
    ELSE Ok(Concat(texts, 1))

ThenJoin(r) == IF r.exc # "" THEN r ELSE Join(r.val)
ThenStrip(r) == IF r.exc # "" THEN r ELSE Ok(strip(r.val))
ThenIterate(r) == IF r.exc # "" THEN r ELSE Iterate(r.val)

GetCandidates(data) == GetKey(data, "candidates")
ThenFirst(r) == IF r.exc # "" THEN r ELSE GetFirst(r.val)
ThenContent(r) == IF r.exc # "" THEN r ELSE GetKey(r.val, "content")
ThenParts(r) == IF r.exc # "" THEN r ELSE GetKey(r.val, "parts")

\* data["candidates"][0]["content"]["parts"]
Navigate(data) == ThenParts(ThenContent(ThenFirst(GetCandidates(data))))

\* variant of TryParts: the except clause names KeyError alone
TryPartsKeyOnly(parts) ==
    IF parts.exc \in {"KeyError"} THEN Ok(<<>>)
    ELSE ThenStrip(ThenJoin(ThenCollect(ThenIterate(parts))))

\* bot.py:58-61: the try/except around the navigation
TryParts(parts) ==
    IF parts.exc \in {"KeyError", "IndexError", "TypeError"} THEN Ok(<<>>)
    ELSE ThenStrip(ThenJoin(ThenCollect(ThenIterate(parts))))

\* extract_text(data): Ok(text) or the exception it raises
extract_text(data) == TryParts(Navigate(data))

-----------------------------------------------------------------------------
(* call_gemini and the outcomes of its one client.post                     *)

\* What the HTTP collaborator does with one POST
Timeout == [kind |-> "timeout", status |-> 0, json |-> FALSE, data |-> JNull]
NetworkError == [kind |-> "network", status |-> 0, json |-> FALSE, data |-> JNull]
Response(status, data) == [kind |-> "response", status |-> status, json |-> TRUE, data |-> data]
NotJson(status) == [kind |-> "response", status |-> status, json |-> FALSE, data |-> JNull]

\* The classes an exception is an instance of (httpx and builtin hierarchy)
Bases(e) ==
    CASE e = "HTTPStatusError" -> {"HTTPStatusError", "HTTPError", "Exception"}
      [] e = "ReadTimeout" -> {"ReadTimeout", "TimeoutException", "TransportError",
                               "RequestError", "HTTPError", "Exception"}
      [] e = "ConnectError" -> {"ConnectError", "NetworkError", "TransportError",
                                "RequestError", "HTTPError", "Exception"}
      [] e = "JSONDecodeError" -> {"JSONDecodeError", "ValueError", "Exception"}
      [] e = "KeyError" -> {"KeyError", "LookupError", "Exception"}
      [] e = "IndexError" -> {"IndexError", "LookupError", "Exception"}
      [] OTHER -> {e, "Exception"}

IsInstance(e, class) == class \in Bases(e)

\* variant of build_payload: the last turn alone is sent
build_payloadLastTurn(history) ==
    [contents |-> IF history = <<>> THEN <<>> ELSE <<history[Len(history)]>>]

\* build_payload(history); generationConfig and systemInstruction are
\* configuration and carry nothing of the state
build_payload(history) == [contents |-> history]

\* response.raise_for_status()
IsSuccess(status) == status >= 200 /\ status <= 299

\* what call_gemini hands to its caller: the text returned or the exception
\* raised, with the status code an HTTPStatusError carries
Raised(e, status) == [exc |-> e, val |-> <<>>, status |-> status]
Returned(text) == IF text.exc # "" THEN Raised(text.exc, 0)
                  ELSE [exc |-> "", val |-> text.val, status |-> 0]

\* call_gemini when its POST met `outcome`
call_gemini(outcome) ==
    IF outcome.kind = "timeout" THEN Raised("ReadTimeout", 0)
    ELSE IF outcome.kind = "network" THEN Raised("ConnectError", 0)
    ELSE IF ~IsSuccess(outcome.status) THEN Raised("HTTPStatusError", outcome.status)
    ELSE IF ~outcome.json THEN Raised("JSONDecodeError", 0)
    ELSE Returned(extract_text(outcome.data))

\* variants of Classify: without the last except clause; with `except
\* Exception` as the first clause
ClassifyNoCatchAll(r) ==
    IF r.exc = ""
    THEN Ok(IF r.val = <<>> THEN EmptyReplyText ELSE r.val)
    ELSE IF IsInstance(r.exc, "HTTPStatusError") THEN Ok(ApiErrorText(r.status))
    ELSE IF IsInstance(r.exc, "TimeoutException") THEN Ok(TimeoutText)
    ELSE Raise(r.exc)

ClassifyGenericFirst(r) ==
    IF r.exc = ""
    THEN Ok(IF r.val = <<>> THEN EmptyReplyText ELSE r.val)
    ELSE IF IsInstance(r.exc, "Exception") THEN Ok(GenericErrorText)
    ELSE IF IsInstance(r.exc, "HTTPStatusError") THEN Ok(ApiErrorText(r.status))
    ELSE IF IsInstance(r.exc, "TimeoutException") THEN Ok(TimeoutText)
    ELSE Raise(r.exc)

\* bot.py:128-140: the try/except of handle_message around call_gemini, r
\* being what call_gemini handed back: the reply text, or the exception
\* that no clause catches
Classify(r) ==
    IF r.exc = ""
    THEN Ok(IF r.val = <<>> THEN EmptyReplyText ELSE r.val)
    ELSE IF IsInstance(r.exc, "HTTPStatusError") THEN Ok(ApiErrorText(r.status))
    ELSE IF IsInstance(r.exc, "TimeoutException") THEN Ok(TimeoutText)
    ELSE IF IsInstance(r.exc, "Exception") THEN Ok(GenericErrorText)
    ELSE Raise(r.exc)

ReplyFor(outcome) == Classify(call_gemini(outcome))

-----------------------------------------------------------------------------
(* Inputs of the handlers *)

\* update.message.text of the h-th message: <<>> is an update without text;
\* a text names its message, so that every user turn can be told from the
\* others, and has whitespace around it
Message(h) == <<Space, "m", DigitChar[h + 1], Space>>
UserTexts(h) == {<<>>, Message(h)}

Part(text) == JDict([text |-> JStr(text)])
Body(parts) ==
    JDict([candidates |-> JList(<<JDict([content |-> JDict([parts |-> parts])])>>)])

StatusCodes == {200, 500}

Outcomes ==
    {Timeout, NetworkError, NotJson(200),
     Response(200, Body(JList(<<Part(<<"h", "i", Space>>), Part(<<"y", "o">>)>>))),
     Response(200, JDict([error |-> JNull])),
     Response(200, Body(JNull))}
    \cup {Response(code, JNull) : code \in StatusCodes \ {200}}

-----------------------------------------------------------------------------
(* handle_message, one action for each stretch between two awaits *)

Idle ==
    [pc |-> "idle", chat |-> None, user_text |-> <<>>, history |-> None,
     payload |-> build_payload(<<>>), reply_text |-> <<>>, sent |-> <<>>,
     typing |-> 0, posts |-> 0, replies |-> 0, alone |-> FALSE]

InFlight(h) == handlers[h].pc \in {"config_reply", "typing", "posting", "replying"}

\* a finished coroutine: its frame is gone; pc tells whether it returned
\* ("done") or an exception left it ("failed")
Ended(pc) == [Idle EXCEPT !.pc = pc]

\* The deques still referenced, by the store or by a frame in fs; the others
\* are garbage, and their contents are dropped
Referenced(store, fs) ==
    {store[c] : c \in Chats} \cup {fs[k].history : k \in Handlers}

Collect(hp, store, fs) ==
    [o \in DOMAIN hp |-> IF o \in Referenced(store, fs) THEN hp[o] ELSE <<>>]

\* another handler of the chat starts to run while these are in flight
Overlap(chat_id, fs) ==
    [k \in Handlers |->
        IF fs[k].chat = chat_id /\ fs[k].pc \in {"config_reply", "typing", "posting", "replying"}
        THEN [fs[k] EXCEPT !.alone = FALSE] ELSE fs[k]]

\* bot.py:114: `not TELEGRAM_BOT_TOKEN or not GEMINI_API_KEY`, and a variant
\* that looks at the key alone
ConfigMissingKeyOnly == ~GEMINI_API_KEY
ConfigMissing == ~TELEGRAM_BOT_TOKEN \/ ~GEMINI_API_KEY

\* bot.py:111-126: up to the await of reply_text (configuration error) or of
\* send_chat_action
HandleStart(h, chat_id, text) ==
    /\ messages < MaxMsgs
    /\ h = messages + 1
    /\ handlers[h].pc = "idle"
    /\ messages' = messages + 1
    /\ UNCHANGED <<config, fn_in, fn_out>>
    /\ IF text = <<>>
       THEN /\ handlers' = [handlers EXCEPT ![h] = Ended("done")]
            /\ UNCHANGED <<chat_histories, heap>>
       ELSE IF ConfigMissing
       THEN /\ handlers' = [Overlap(chat_id, handlers) EXCEPT ![h] =
                   [Idle EXCEPT !.pc = "config_reply", !.chat = chat_id,
                                !.sent = ConfigErrorText, !.replies = 1]]
            /\ UNCHANGED <<chat_histories, heap>>
       ELSE LET got == get_history(chat_id)
                user_text == strip(text)
                turn == Turn("user", user_text)
            IN  /\ chat_histories' = got.store
                /\ heap' = [got.heap EXCEPT ![got.history] = dequeAppend(@, turn)]
                /\ handlers' = [Overlap(chat_id, handlers) EXCEPT ![h] =
                       [Idle EXCEPT !.pc = "typing", !.chat = chat_id,
                                    !.user_text = user_text, !.history = got.history,
                                    !.typing = 1,
                                    !.alone =
                                        /\ got.heap[got.history] = <<>>
                                        /\ \A k \in Handlers :
                                              InFlight(k) => handlers[k].chat # chat_id]]

\* bot.py:126-129: send_chat_action returns or raises; on return the history
\* is copied, the payload built and the POST issued
TypingDone(h, ok) ==
    /\ handlers[h].pc = "typing"
    /\ UNCHANGED <<config, chat_histories, messages, fn_in, fn_out>>
    /\ IF ok
       THEN handlers' = [handlers EXCEPT ![h] =
                [@ EXCEPT !.pc = "posting",
                          !.payload = build_payload(heap[handlers[h].history]),
                          !.posts = @ + 1]]
       ELSE handlers' = [handlers EXCEPT ![h] = Ended("failed")]
    /\ heap' = Collect(heap, chat_histories, handlers')

\* variants of Finish: a fallback text is sent but not recorded as a model
\* turn; a failed call is tried once more
FinishDropFallback(h, reply) ==
    IF reply.exc # ""
    THEN /\ handlers' = [handlers EXCEPT ![h] = Ended("failed")]
         /\ heap' = Collect(heap, chat_histories, handlers')
    ELSE /\ heap' = [heap EXCEPT ![handlers[h].history] =
                        IF reply.val \in {TimeoutText, GenericErrorText}
                        THEN @ ELSE dequeAppend(@, Turn("model", reply.val))]
         /\ handlers' = [handlers EXCEPT ![h] =
                [@ EXCEPT !.pc = "replying", !.reply_text = reply.val,
                          !.user_text = <<>>,
                          !.payload = build_payload(<<>>),
                          !.sent = trim_for_telegram(reply.val),
                          !.replies = @ + 1]]

FinishRetry(h, reply) ==
    IF reply.exc # ""
    THEN /\ handlers' = [handlers EXCEPT ![h] = Ended("failed")]
         /\ heap' = Collect(heap, chat_histories, handlers')
    ELSE IF reply.val \in {TimeoutText, GenericErrorText} /\ handlers[h].posts < 2
    THEN /\ handlers' = [handlers EXCEPT ![h] = [@ EXCEPT !.posts = @ + 1]]
         /\ UNCHANGED heap
    ELSE /\ heap' = [heap EXCEPT ![handlers[h].history] =
                        dequeAppend(@, Turn("model", reply.val))]
         /\ handlers' = [handlers EXCEPT ![h] =
                [@ EXCEPT !.pc = "replying", !.reply_text = reply.val,
                          !.user_text = <<>>,
                          !.payload = build_payload(<<>>),
                          !.sent = trim_for_telegram(reply.val),
                          !.replies = @ + 1]]

\* variant of Finish: the trimmed text is what the model turn records
FinishStoreTrimmed(h, reply) ==
    IF reply.exc # ""
    THEN /\ handlers' = [handlers EXCEPT ![h] = Ended("failed")]
         /\ heap' = Collect(heap, chat_histories, handlers')
    ELSE /\ heap' = [heap EXCEPT ![handlers[h].history] =
                        dequeAppend(@, Turn("model", trim_for_telegram(reply.val)))]
         /\ handlers' = [handlers EXCEPT ![h] =
                [@ EXCEPT !.pc = "replying", !.reply_text = reply.val,
                          !.user_text = <<>>,
                          !.payload = build_payload(<<>>),
                          !.sent = trim_for_telegram(reply.val),
                          !.replies = @ + 1]]

\* variant of Finish: the model turn goes to the deque the store holds for
\* the chat at that moment, if there is one
FinishToStored(h, reply) ==
    IF reply.exc # ""
    THEN /\ handlers' = [handlers EXCEPT ![h] = Ended("failed")]
         /\ heap' = Collect(heap, chat_histories, handlers')
    ELSE /\ heap' = [heap EXCEPT ![IF chat_histories[handlers[h].chat] # None
                                   THEN chat_histories[handlers[h].chat]
                                   ELSE handlers[h].history] =
                        dequeAppend(@, Turn("model", reply.val))]
         /\ handlers' = [handlers EXCEPT ![h] =
                [@ EXCEPT !.pc = "replying", !.reply_text = reply.val,
                          !.user_text = <<>>,
                          !.payload = build_payload(<<>>),
                          !.sent = trim_for_telegram(reply.val),
                          !.replies = @ + 1]]

\* bot.py:142-144 with the reply text chosen, or the handler left by the
\* exception no except clause caught
Finish(h, reply) ==
    IF reply.exc # ""
    THEN /\ handlers' = [handlers EXCEPT ![h] = Ended("failed")]
         /\ heap' = Collect(heap, chat_histories, handlers')
    ELSE /\ heap' = [heap EXCEPT ![handlers[h].history] =
                        dequeAppend(@, Turn("model", reply.val))]
         /\ handlers' = [handlers EXCEPT ![h] =
                [@ EXCEPT !.pc = "replying", !.reply_text = reply.val,
                          !.user_text = <<>>,
                          !.payload = build_payload(<<>>),
                          !.sent = trim_for_telegram(reply.val),
                          !.replies = @ + 1]]

\* variant of PostDone: the handlers of one chat finish in the order in
\* which they started
PostDoneInTurn(h, outcome) ==
    /\ handlers[h].pc = "posting"
    /\ \A k \in Handlers :
          (k < h /\ handlers[k].chat = handlers[h].chat) =>
              handlers[k].pc \notin {"typing", "posting"}
    /\ UNCHANGED <<config, chat_histories, messages, fn_in, fn_out>>
    /\ Finish(h, ReplyFor(outcome))

\* bot.py:129-144: the POST ends; the reply text is chosen, the model turn
\* appended and reply_text called with the trimmed text
PostDone(h, outcome) ==
    /\ handlers[h].pc = "posting"
    /\ UNCHANGED <<config, chat_histories, messages, fn_in, fn_out>>
    /\ Finish(h, ReplyFor(outcome))

\* variant of ReplyDone: a failed send takes the model turn back
ReplyDoneUndo(h, ok) ==
    /\ handlers[h].pc \in {"config_reply", "replying"}
    /\ UNCHANGED <<config, chat_histories, messages, fn_in, fn_out>>
    /\ handlers' = [handlers EXCEPT ![h] = Ended(IF ok THEN "done" ELSE "failed")]
    /\ heap' = Collect([o \in DOMAIN heap |->
                           IF o = handlers[h].history /\ ~ok /\ heap[o] # <<>>
                           THEN SubSeq(heap[o], 1, Len(heap[o]) - 1) ELSE heap[o]],
                       chat_histories, handlers')

\* bot.py:115-118, 144: reply_text returns or raises, and the handler ends
ReplyDone(h, ok) ==
    /\ handlers[h].pc \in {"config_reply", "replying"}
    /\ UNCHANGED <<config, chat_histories, messages, fn_in, fn_out>>
    /\ handlers' = [handlers EXCEPT ![h] = Ended(IF ok THEN "done" ELSE "failed")]
    /\ heap' = Collect(heap, chat_histories, handlers')

\* variant of new_chat: the deque is emptied and stays in the store
NewChatClear(chat_id) ==
    /\ chat_histories[chat_id] # None
    /\ heap' = [heap EXCEPT ![chat_histories[chat_id]] = <<>>]
    /\ handlers' = Overlap(chat_id, handlers)
    /\ UNCHANGED <<config, chat_histories, messages, fn_in, fn_out>>

\* bot.py:104-107: new_chat
NewChat(chat_id) ==
    /\ chat_histories' = pop(chat_id)
    /\ handlers' = Overlap(chat_id, handlers)
    /\ heap' = Collect(heap, chat_histories', handlers')
    /\ UNCHANGED <<config, messages, fn_in, fn_out>>

-----------------------------------------------------------------------------

\* fn_out before and after the function under check is applied
NotApplied == [done |-> FALSE, val |-> <<>>]
Applied(x) == [done |-> TRUE, val |-> x]

Init ==
    /\ TELEGRAM_BOT_TOKEN \in BOOLEAN
    /\ GEMINI_API_KEY \in BOOLEAN
    /\ MAX_HISTORY \in 0..MaxHistoryCfg
    /\ MAX_REPLY_CHARS = MaxReplyCfg
    /\ chat_histories = [c \in Chats |-> None]
    /\ heap = <<>>
    /\ handlers = [h \in Handlers |-> Idle]
    /\ messages = 0
    /\ fn_in = <<>>
    /\ fn_out = NotApplied

Next ==
    \/ \E h \in Handlers, c \in Chats : \E t \in UserTexts(h) : HandleStart(h, c, t)
    \/ \E h \in Handlers, ok \in BOOLEAN : TypingDone(h, ok)
    \/ \E h \in Handlers, o \in Outcomes : PostDone(h, o)
    \/ \E h \in Handlers, ok \in BOOLEAN : ReplyDone(h, ok)
    \/ \E c \in Chats : NewChat(c)

\* Whether two handler coroutines overlap is the application's choice
\* (Application.concurrent_updates); Next allows every interleaving at the
\* awaits, the runs that handle one update at a time among them.
Spec == Init /\ [][Next]_vars

\* Every await of handle_message ends: send_chat_action and reply_text
\* return or raise, and the POST ends by REQUEST_TIMEOUT at the latest
Fairness ==
    \A h \in Handlers :
        /\ WF_vars(\E ok \in BOOLEAN : TypingDone(h, ok))
        /\ WF_vars(\E o \in Outcomes : PostDone(h, o))
        /\ WF_vars(\E ok \in BOOLEAN : ReplyDone(h, ok))

FairSpec == Init /\ [][Next]_vars /\ Fairness

\* Runs in which nothing is evicted: the configuration is complete and
\* MAX_HISTORY has room for both turns of every message
InitRace ==
    /\ TELEGRAM_BOT_TOKEN = TRUE
    /\ GEMINI_API_KEY = TRUE
    /\ MAX_HISTORY = 2 * MaxMsgs
    /\ MAX_REPLY_CHARS = MaxReplyCfg
    /\ chat_histories = [c \in Chats |-> None]
    /\ heap = <<>>
    /\ handlers = [h \in Handlers |-> Idle]
    /\ messages = 0
    /\ fn_in = <<>>
    /\ fn_out = NotApplied

SpecRace == InitRace /\ [][Next]_vars

\* Runs in which the messages of a chat are handled one after the other and
\* send_chat_action always returns
Serial(chat_id) == \A k \in Handlers : InFlight(k) => handlers[k].chat # chat_id

HandleStartSerial(h, chat_id, text) == Serial(chat_id) /\ HandleStart(h, chat_id, text)

TypingOk(h) == TypingDone(h, TRUE)

NextSerial ==
    \/ \E h \in Handlers, c \in Chats : \E t \in UserTexts(h) : HandleStartSerial(h, c, t)
    \/ \E h \in Handlers : TypingOk(h)
    \/ \E h \in Handlers, o \in Outcomes : PostDone(h, o)
    \/ \E h \in Handlers, ok \in BOOLEAN : ReplyDone(h, ok)
    \/ \E c \in Chats : NewChat(c)

SpecSerial == Init /\ [][NextSerial]_vars

-----------------------------------------------------------------------------
(* trim_for_telegram as a function: a text and a MAX_REPLY_CHARS are drawn, *)
(* and the function applied once                                           *)

TextChars == {"a", Space}
Texts == UNION {[1..n -> TextChars] : n \in 0..MaxLen}

InitTrim ==
    /\ TELEGRAM_BOT_TOKEN = TRUE
    /\ GEMINI_API_KEY = TRUE
    /\ MAX_HISTORY = MaxHistoryCfg
    /\ \E k \in 0..(MaxReplyCfg + 1) : MAX_REPLY_CHARS = MaxReplyCfg - k
    /\ chat_histories = [c \in Chats |-> None]
    /\ heap = <<>>
    /\ handlers = [h \in Handlers |-> Idle]
    /\ messages = 0
    /\ fn_in \in Texts
    /\ fn_out = NotApplied

Trim ==
    /\ ~fn_out.done
    /\ fn_out' = Applied(trim_for_telegram(fn_in))
    /\ UNCHANGED <<config, chat_histories, heap, handlers, messages, fn_in>>

NextTrim == Trim

SpecTrim == InitTrim /\ [][NextTrim]_vars

-----------------------------------------------------------------------------
(* The reply chosen for an outcome of the POST, as a function *)

PartKinds ==
    {Part(<<"h", "i", Space>>), Part(<<"y", "o">>), Part(<<Space>>), Part(<<>>),
     JDict([text |-> JNull]), JDict([text |-> JNum(5)]),
     JDict([functionCall |-> JNull]), JStr(<<"x">>), JNull}

PartsLists == UNION {[1..n -> PartKinds] : n \in 0..2}

Bodies ==
    {Body(JList(q)) : q \in PartsLists}
    \cup {Body(JNull), Body(JNum(0)), Body(JStr(<<"x">>)), Body(JStr(<<>>)),
          Body(Part(<<"h">>)), Body(JDict(<<>>)),
          JNull, JNum(1), JStr(<<"x">>), JList(<<>>), JList(<<JNull>>),
          JDict(<<>>), JDict([error |-> JNull]),
          JDict([candidates |-> JNull]), JDict([candidates |-> JList(<<>>)]),
          JDict([candidates |-> JDict(<<>>)]),
          JDict([candidates |-> JList(<<JNull>>)]),
          JDict([candidates |-> JList(<<JDict([finishReason |-> JStr(<<"S">>)])>>)]),
          JDict([candidates |-> JList(<<JDict([content |-> JNull])>>)]),
          JDict([candidates |-> JList(<<JDict([content |-> JDict([role |-> JStr(<<"m">>)])])>>)])}

AllStatusCodes == {200, 204, 400, 404, 429, 500, 503}

AllOutcomes ==
    {Timeout, NetworkError}
    \cup {NotJson(code) : code \in AllStatusCodes}
    \cup {Response(code, data) : code \in {200, 404, 500}, data \in Bodies}

InitReply ==
    /\ TELEGRAM_BOT_TOKEN = TRUE
    /\ GEMINI_API_KEY = TRUE
    /\ MAX_HISTORY = MaxHistoryCfg
    /\ MAX_REPLY_CHARS = MaxReplyCfg
    /\ chat_histories = [c \in Chats |-> None]
    /\ heap = <<>>
    /\ handlers = [h \in Handlers |-> Idle]
    /\ messages = 0
    /\ fn_in \in AllOutcomes
    /\ fn_out = NotApplied

Reply ==
    /\ ~fn_out.done
    /\ fn_out' = Applied(ReplyFor(fn_in))
    /\ UNCHANGED <<config, chat_histories, heap, handlers, messages, fn_in>>

NextReply == Reply

SpecReply == InitReply /\ [][NextReply]_vars

-----------------------------------------------------------------------------
(* extract_text as a function of the parsed response body *)

InitExtract ==
    /\ TELEGRAM_BOT_TOKEN = TRUE
    /\ GEMINI_API_KEY = TRUE
    /\ MAX_HISTORY = MaxHistoryCfg
    /\ MAX_REPLY_CHARS = MaxReplyCfg
    /\ chat_histories = [c \in Chats |-> None]
    /\ heap = <<>>
    /\ handlers = [h \in Handlers |-> Idle]
    /\ messages = 0
    /\ fn_in \in Bodies
    /\ fn_out = NotApplied

Extract ==
    /\ ~fn_out.done
    /\ fn_out' = Applied(extract_text(fn_in))
    /\ UNCHANGED <<config, chat_histories, heap, handlers, messages, fn_in>>

NextExtract == Extract

SpecExtract == InitExtract /\ [][NextExtract]_vars

-----------------------------------------------------------------------------
(* Properties *)

\* the steps of handler h that append to its deque
UserAppend(h) == handlers[h].pc = "idle" /\ handlers'[h].pc = "typing"
ModelAppend(h) == handlers[h].pc = "posting" /\ handlers'[h].pc = "replying"

\* the turns of deque o before the step (none when the step creates it)
Before(o) == IF o \in DOMAIN heap THEN heap[o] ELSE <<>>

UserTurnOf(h) == Turn("user", handlers'[h].user_text)
ModelTurnOf(h) == Turn("model", handlers'[h].reply_text)

\* C1: for every chat id present in the store, the history holds at most
\* MAX_HISTORY turns, in every reachable state.
C1_HistoryBounded ==
    \A c \in Chats :
        chat_histories[c] # None => Len(heap[chat_histories[c]]) <= MAX_HISTORY

\* C1 witness: with MAX_HISTORY = 1 the stored history holds the model turn
\* alone, the user turn appended before it being gone.
C1_Witness ==
    \E c \in Chats :
        /\ chat_histories[c] # None
        /\ MAX_HISTORY = 1
        /\ Len(heap[chat_histories[c]]) = 1
        /\ heap[chat_histories[c]][1].role = "model"

\* an append of `new` that turns `before` into `after` is FIFO: at capacity
\* the oldest turn goes and the rest keeps its order, below capacity nothing
\* goes; the new turn is last
Fifo(before, after, new) ==
    IF Len(before) = MAX_HISTORY
    THEN after = SubSeq(before, 2, Len(before)) \o <<new>>
    ELSE Len(before) < MAX_HISTORY /\ after = before \o <<new>>

FifoSteps ==
    \A h \in Handlers :
        /\ UserAppend(h) =>
              Fifo(Before(handlers'[h].history), heap'[handlers'[h].history], UserTurnOf(h))
        /\ ModelAppend(h) =>
              Fifo(heap[handlers[h].history], heap'[handlers[h].history], ModelTurnOf(h))

\* C2 as stated: every append of a turn, of either role, is FIFO: at
\* MAX_HISTORY turns exactly the oldest is removed and the new turn is last,
\* below MAX_HISTORY nothing is removed.
C2_Original == [][FifoSteps]_vars

\* C2 amended: the same for MAX_HISTORY >= 1; with MAX_HISTORY = 0 an
\* append leaves the history empty.
C2_FifoEviction ==
    [][/\ MAX_HISTORY >= 1 => FifoSteps
       /\ MAX_HISTORY = 0 =>
             \A h \in Handlers :
                 /\ UserAppend(h) => heap'[handlers'[h].history] = <<>>
                 /\ ModelAppend(h) => heap'[handlers[h].history] = <<>>]_vars

\* C2 witness: a full history that starts with a model turn and ends with
\* the user turn just appended: the oldest turn was evicted.
C2_Witness ==
    \E h \in Handlers :
        /\ handlers[h].pc = "typing"
        /\ MAX_HISTORY >= 2
        /\ Len(heap[handlers[h].history]) = MAX_HISTORY
        /\ heap[handlers[h].history][1].role = "model"
        /\ heap[handlers[h].history][MAX_HISTORY] = Turn("user", handlers[h].user_text)

Last(q) == q[Len(q)]

\* C3: whatever the outcome of the generation call, the handler leaves the
\* call by appending a model turn whose text is the final reply text; a
\* handler that started on an empty history and met no other handler of its
\* chat leaves, with MAX_HISTORY >= 2, exactly its user turn followed by
\* that model turn in the stored history.
C3_ModelTurnRecorded ==
    [][\A h \in Handlers :
          (handlers[h].pc = "posting" /\ handlers'[h].pc # "posting") =>
             /\ handlers'[h].pc = "replying"
             /\ handlers'[h].reply_text # <<>>
             /\ MAX_HISTORY >= 1 => Last(heap'[handlers[h].history]) = ModelTurnOf(h)
             /\ (handlers[h].alone /\ MAX_HISTORY >= 2) =>
                   /\ chat_histories'[handlers[h].chat] = handlers[h].history
                   /\ heap'[handlers[h].history] =
                         <<Turn("user", handlers[h].user_text), ModelTurnOf(h)>>]_vars

\* C3 witness: the POST timed out, and the stored history holds the user
\* turn followed by the model turn carrying the timeout text.
C3_Witness ==
    \E h \in Handlers :
        /\ handlers[h].pc = "replying"
        /\ handlers[h].alone
        /\ handlers[h].reply_text = TimeoutText
        /\ chat_histories[handlers[h].chat] = handlers[h].history
        /\ Len(heap[handlers[h].history]) = 2
        /\ heap[handlers[h].history][1].role = "user"
        /\ heap[handlers[h].history][2] = Turn("model", TimeoutText)

Contains(text, piece) ==
    \E i \in 1..Len(text) : SubSeq(text, i, i + Len(piece) - 1) = piece

\* C4: the reply text is decided by the outcome of the one POST: a 2xx with
\* non-empty extracted text gives that text, a 2xx with empty extracted text
\* the empty-response text, an error status the API-error text with that
\* status code in it, a timeout the timeout text, every other failure the
\* generic text; the fixed texts differ from one another.
C4_ReplyClassification ==
    fn_out.done =>
        /\ fn_out.val.exc = ""
        /\ Cardinality({EmptyReplyText, TimeoutText, GenericErrorText,
                        ApiErrorText(fn_in.status)}) = 4
        /\ IF fn_in.kind = "timeout" THEN fn_out.val.val = TimeoutText
           ELSE IF fn_in.kind = "network" THEN fn_out.val.val = GenericErrorText
           ELSE IF fn_in.status < 200 \/ fn_in.status > 299
           THEN /\ fn_out.val.val = ApiErrorText(fn_in.status)
                /\ Contains(fn_out.val.val, Digits(fn_in.status))
           ELSE IF ~fn_in.json THEN fn_out.val.val = GenericErrorText
           ELSE IF extract_text(fn_in.data).exc # "" THEN fn_out.val.val = GenericErrorText
           ELSE IF extract_text(fn_in.data).val = <<>> THEN fn_out.val.val = EmptyReplyText
           ELSE fn_out.val.val = extract_text(fn_in.data).val

\* C4 witness: a 404 response was answered with the API-error text for 404.
C4_Witness ==
    /\ fn_out.done
    /\ fn_in.kind = "response"
    /\ fn_in.status = 404
    /\ fn_out.val.val = ApiErrorText(404)

\* C5: no failure of the generation step leaves the handler: a handler
\* whose POST is under way always comes to call reply_text, once, whatever
\* the POST and the parsing of its body did, and then ends.
C5_NoEscape ==
    \A h \in Handlers :
        /\ (handlers[h].pc = "posting") ~>
               (handlers[h].pc = "replying" /\ handlers[h].replies = 1)
        /\ (handlers[h].pc = "replying") ~> (handlers[h].pc \in {"done", "failed"})

\* C5 witness: a failure other than an error status or a timeout (a network
\* failure, a body that is not JSON, a body extract_text chokes on) ended in
\* one reply carrying the generic text.
C5_Witness ==
    \E h \in Handlers :
        /\ handlers[h].pc = "replying"
        /\ handlers[h].reply_text = GenericErrorText
        /\ handlers[h].sent = trim_for_telegram(GenericErrorText)
        /\ handlers[h].replies = 1

\* C6: with the bot token or the API key absent, a message is answered with
\* the configuration-error text and nothing else happens: the store gets no
\* entry and no turn, no typing indicator is sent and no POST is made.
C6_ConfigErrorStops ==
    (~TELEGRAM_BOT_TOKEN \/ ~GEMINI_API_KEY) =>
        /\ \A c \in Chats : chat_histories[c] = None
        /\ heap = <<>>
        /\ \A h \in Handlers :
              /\ handlers[h].pc \in {"idle", "config_reply", "done", "failed"}
              /\ handlers[h].typing = 0
              /\ handlers[h].posts = 0
              /\ handlers[h].history = None
              /\ handlers[h].pc = "config_reply" =>
                    handlers[h].sent = ConfigErrorText /\ handlers[h].replies = 1

\* C6 witness: the token is set and the key is not, and a message is being
\* answered with the configuration-error text.
C6_Witness ==
    \E h \in Handlers :
        /\ TELEGRAM_BOT_TOKEN /\ ~GEMINI_API_KEY
        /\ handlers[h].pc = "config_reply"
        /\ handlers[h].sent = ConfigErrorText
        /\ chat_histories[handlers[h].chat] = None

\* C7: new_chat removes the entry of its chat and touches no deque and no
\* other entry, and is a no-op without an entry; get_history on a chat
\* without entry gives an empty deque that is none of the deques made
\* before, on a chat with an entry that entry, changing nothing.
C7_ResetThenFresh ==
    [][\A c \in Chats :
          /\ NewChat(c) =>
                /\ chat_histories'[c] = None
                /\ \A d \in Chats \ {c} : chat_histories'[d] = chat_histories[d]
                /\ \A o \in DOMAIN heap : heap'[o] # heap[o] => o \notin Referenced(chat_histories', handlers')
                /\ chat_histories[c] = None => chat_histories' = chat_histories /\ heap' = heap
          /\ LET got == get_history(c)
             IN  IF chat_histories[c] = None
                 THEN /\ got.history \notin DOMAIN heap
                      /\ got.heap[got.history] = <<>>
                      /\ got.store = [chat_histories EXCEPT ![c] = got.history]
                 ELSE /\ got.history = chat_histories[c]
                      /\ got.store = chat_histories
                      /\ got.heap = heap]_vars

\* C7 witness: two handlers of one chat hold different deques, the store
\* naming the later one: a reset came between their get_history calls, and
\* the earlier deque still holds its turns.
C7_Witness ==
    \E h, k \in Handlers :
        /\ h < k
        /\ InFlight(h) /\ InFlight(k)
        /\ handlers[h].chat = handlers[k].chat
        /\ handlers[h].history # handlers[k].history
        /\ chat_histories[handlers[k].chat] = handlers[k].history
        /\ heap[handlers[h].history] # <<>>
        /\ MAX_HISTORY >= 1

\* C8 as stated: a text of at most MAX_REPLY_CHARS characters is returned
\* as it is; of a longer one the result has exactly MAX_REPLY_CHARS
\* characters and ends with the ellipsis.
C8_Original ==
    fn_out.done =>
        IF Len(fn_in) <= MAX_REPLY_CHARS THEN fn_out.val = fn_in
        ELSE Len(fn_out.val) = MAX_REPLY_CHARS /\ Last(fn_out.val) = Ellipsis

\* C8 amended: a text of at most MAX_REPLY_CHARS characters is returned as
\* it is; of a longer one the result ends with the ellipsis, the ellipsis
\* follows no whitespace, and for MAX_REPLY_CHARS >= 1 the result has at
\* most MAX_REPLY_CHARS characters: exactly that many when the character at
\* position MAX_REPLY_CHARS - 1 of the text is no whitespace.
C8_TrimLength ==
    fn_out.done =>
        IF Len(fn_in) <= MAX_REPLY_CHARS THEN fn_out.val = fn_in
        ELSE /\ Last(fn_out.val) = Ellipsis
             /\ Len(fn_out.val) >= 2 => ~IsSpace(fn_out.val[Len(fn_out.val) - 1])
             /\ MAX_REPLY_CHARS >= 1 => Len(fn_out.val) <= MAX_REPLY_CHARS
             /\ (MAX_REPLY_CHARS = 1 \/ (MAX_REPLY_CHARS >= 2 /\ ~IsSpace(fn_in[MAX_REPLY_CHARS - 1])))
                   => Len(fn_out.val) = MAX_REPLY_CHARS

\* C8 witness: the cut fell behind a whitespace, and the result is shorter
\* than MAX_REPLY_CHARS.
C8_Witness ==
    /\ fn_out.done
    /\ MAX_REPLY_CHARS >= 2
    /\ Len(fn_in) > MAX_REPLY_CHARS
    /\ IsSpace(fn_in[MAX_REPLY_CHARS - 1])
    /\ Len(fn_out.val) < MAX_REPLY_CHARS
    /\ Last(fn_out.val) = Ellipsis

\* C9 as stated: the result never has more than MAX_REPLY_CHARS characters,
\* and with MAX_REPLY_CHARS <= 1 a longer text gives the ellipsis alone.
C9_Original ==
    fn_out.done =>
        /\ Len(fn_out.val) <= MAX_REPLY_CHARS
        /\ (MAX_REPLY_CHARS <= 1 /\ Len(fn_in) > MAX_REPLY_CHARS) => fn_out.val = <<Ellipsis>>

\* C9 amended: for MAX_REPLY_CHARS >= 1 the result never has more than
\* MAX_REPLY_CHARS characters; with MAX_REPLY_CHARS <= 1 a longer text gives
\* the ellipsis alone, one character, which is more than MAX_REPLY_CHARS
\* when that is 0 or less.
C9_TrimBound ==
    fn_out.done =>
        /\ MAX_REPLY_CHARS >= 1 => Len(fn_out.val) <= MAX_REPLY_CHARS
        /\ (MAX_REPLY_CHARS <= 1 /\ Len(fn_in) > MAX_REPLY_CHARS) => fn_out.val = <<Ellipsis>>
        /\ (MAX_REPLY_CHARS <= 0 /\ Len(fn_in) > MAX_REPLY_CHARS) =>
              Len(fn_out.val) > MAX_REPLY_CHARS

\* C9 witness: MAX_REPLY_CHARS is 0 or less and a text of two or more
\* characters came out as the ellipsis alone.
C9_Witness ==
    /\ fn_out.done
    /\ MAX_REPLY_CHARS <= 0
    /\ Len(fn_in) >= 2
    /\ fn_out.val = <<Ellipsis>>

\* C10: a handler issues at most one POST, whatever its outcome: its count
\* of POSTs is 1 from the POST to the end of the handler, and 0 before.
C10_SinglePost ==
    \A h \in Handlers :
        /\ handlers[h].posts <= 1
        /\ handlers[h].pc \in {"posting", "replying"} => handlers[h].posts = 1
        /\ handlers[h].pc \in {"idle", "config_reply", "typing"} => handlers[h].posts = 0

\* C10 witness: the POST failed and the handler is replying with a fallback
\* text after one POST.
C10_Witness ==
    \E h \in Handlers :
        /\ handlers[h].pc = "replying"
        /\ handlers[h].reply_text \in {TimeoutText, GenericErrorText, ApiErrorText(500)}
        /\ handlers[h].posts = 1

\* the parts list of the first candidate of a body of the success shape
HasKey(x, key) == x.t = "dict" /\ key \in DOMAIN x.keys

HasParts(data) ==
    /\ HasKey(data, "candidates")
    /\ data.keys["candidates"].t = "list"
    /\ Len(data.keys["candidates"].items) > 0
    /\ HasKey(data.keys["candidates"].items[1], "content")
    /\ HasKey(data.keys["candidates"].items[1].keys["content"], "parts")

PartsOf(data) == data.keys["candidates"].items[1].keys["content"].keys["parts"]

HasTextStr(part) == HasKey(part, "text") /\ part.keys["text"].t = "str"

\* the texts of parts that all carry one, in list order, as one text
RECURSIVE TextsInOrder(_)
TextsInOrder(q) ==
    IF q = <<>> THEN <<>> ELSE Head(q).keys["text"].str \o TextsInOrder(Tail(q))

\* C11: for a body whose first candidate has a list of parts that all carry
\* a text, extract_text returns these texts concatenated in list order with
\* the whitespace at both ends stripped; for a body without candidates, with
\* an empty candidates list, without content or without parts it returns
\* the empty text and raises nothing.
C11_ExtractConcat ==
    fn_out.done =>
        /\ (HasParts(fn_in) /\ PartsOf(fn_in).t = "list"
               /\ \A i \in 1..Len(PartsOf(fn_in).items) : HasTextStr(PartsOf(fn_in).items[i]))
              => fn_out.val = Ok(strip(TextsInOrder(PartsOf(fn_in).items)))
        /\ ~HasParts(fn_in) => fn_out.val = Ok(<<>>)

\* C11 witness: the two parts "hi " and "yo" came out as "hi yo".
C11_Witness ==
    /\ fn_out.done
    /\ fn_in = Body(JList(<<Part(<<"h", "i", Space>>), Part(<<"y", "o">>)>>))
    /\ fn_out.val = Ok(<<"h", "i", Space, "y", "o">>)

\* C12 as stated: the typing indicator is best-effort: whether
\* send_chat_action returns or fails, the handler goes on to issue its POST,
\* and so to append a model turn and to reply.
C12_Original ==
    [][\A h \in Handlers :
          (handlers[h].pc = "typing" /\ handlers'[h].pc # "typing") =>
             /\ handlers'[h].pc = "posting"
             /\ handlers'[h].posts = 1]_vars

\* the step of handler h that copies its deque for the POST
Snapshot(h) == handlers[h].pc = "typing" /\ handlers'[h].pc = "posting"

\* C13 as stated: nothing of the chat runs between a handler's user-turn
\* append and its snapshot, so with MAX_HISTORY >= 1 the snapshot given to
\* the generation call ends with the handler's own user turn.
C13_Original ==
    \A h \in Handlers :
        (handlers[h].pc = "posting" /\ MAX_HISTORY >= 1) =>
            Last(handlers[h].payload.contents) = Turn("user", handlers[h].user_text)

\* C13 amended: the handler is suspended at send_chat_action between its
\* user-turn append and its snapshot.  With MAX_HISTORY >= 1 the user turn
\* is last in the deque right after its append; the snapshot is the whole
\* content of the handler's deque when send_chat_action returns; and while
\* the handler waits there its deque changes only by an append of another
\* handler holding the same deque, never by a reset.
C13_SnapshotAfterTyping ==
    [][\A h \in Handlers :
          /\ (UserAppend(h) /\ MAX_HISTORY >= 1) =>
                Last(heap'[handlers'[h].history]) = UserTurnOf(h)
          /\ Snapshot(h) =>
                /\ handlers'[h].payload.contents = heap[handlers[h].history]
                /\ heap'[handlers[h].history] = heap[handlers[h].history]
          /\ (handlers[h].pc = "typing" /\ handlers'[h].pc = "typing"
                /\ heap'[handlers[h].history] # heap[handlers[h].history]) =>
                \E k \in Handlers \ {h} :
                    /\ handlers'[k].history = handlers[h].history
                    /\ UserAppend(k) \/ ModelAppend(k)]_vars

\* C13 witness: a handler is at its POST with a snapshot that ends with the
\* user turn of another handler of its chat, appended while the first one
\* was sending the typing indicator.
C13_Witness ==
    \E h, k \in Handlers :
        /\ h # k
        /\ handlers[h].pc = "posting"
        /\ handlers[k].pc \in {"typing", "posting"}
        /\ handlers[k].history = handlers[h].history
        /\ Len(handlers[h].payload.contents) >= 2
        /\ Last(handlers[h].payload.contents) = Turn("user", handlers[k].user_text)

\* what the store holds for chat c: whether there is an entry, which deque
\* it is and the turns of that deque in their order
Stored(c) ==
    [history |-> chat_histories[c],
     turns |-> IF chat_histories[c] = None THEN <<>> ELSE heap[chat_histories[c]]]

StoredNext(c) ==
    [history |-> chat_histories'[c],
     turns |-> IF chat_histories'[c] = None THEN <<>> ELSE heap'[chat_histories'[c]]]

\* the step is one of a handler of chat c, or a reset of chat c
StepOf(c) ==
    \/ NewChat(c)
    \/ \E h \in Handlers :
          /\ handlers'[h].pc # handlers[h].pc
          /\ handlers[h].chat = c \/ handlers'[h].chat = c

\* C14: a step of a handler of chat A, or a reset of chat A, leaves what the
\* store holds for every other chat B as it was: the entry, its turns and
\* their order, under every interleaving of the handlers.
C14_OtherChatsUntouched ==
    [][\A A \in Chats :
          StepOf(A) => \A B \in Chats \ {A} : StoredNext(B) = Stored(B)]_vars

\* C14 witness: handlers of two chats are in flight at once, one at its
\* POST and one replying, and each chat's stored history holds the turns of
\* its own handler alone.
C14_Witness ==
    \E h, k \in Handlers :
        /\ handlers[h].pc = "posting" /\ handlers[k].pc = "replying"
        /\ handlers[h].chat # handlers[k].chat
        /\ MAX_HISTORY >= 2
        /\ Stored(handlers[h].chat).turns = <<Turn("user", handlers[h].user_text)>>
        /\ Len(Stored(handlers[k].chat).turns) = 2
        /\ Stored(handlers[k].chat).turns[2] = Turn("model", handlers[k].reply_text)

\* the user turn of the h-th message
OwnUserTurn(h) == Turn("user", strip(Message(h)))

\* C15: nothing serializes the handlers of one chat: while handlers of the
\* same chat are at their POST on the same deque each of them can finish
\* next, whatever the order of their user turns, and a further message of
\* the chat can start; the user turns lie in the deque in the order of
\* their appends.
C15_NotSerialized ==
    \A h, k \in Handlers :
        (/\ h < k
         /\ handlers[h].history = handlers[k].history
         /\ handlers[h].pc = "posting" /\ handlers[k].pc = "posting") =>
            /\ ENABLED PostDone(h, Timeout)
            /\ ENABLED PostDone(k, Timeout)
            /\ messages < MaxMsgs =>
                  ENABLED HandleStart(messages + 1, handlers[h].chat, Message(messages + 1))
            /\ \E i, j \in 1..Len(heap[handlers[h].history]) :
                  /\ i < j
                  /\ heap[handlers[h].history][i] = OwnUserTurn(h)
                  /\ heap[handlers[h].history][j] = OwnUserTurn(k)

\* C15 witness: the stored history of a chat holds the user turns of two
\* messages, then the model turn of the second message, then the model turn
\* of the first.
C15_Witness ==
    \E h, k \in Handlers, c \in Chats :
        /\ h < k
        /\ handlers[h].pc = "replying" /\ handlers[k].pc = "replying"
        /\ handlers[h].reply_text = TimeoutText
        /\ handlers[k].reply_text = GenericErrorText
        /\ chat_histories[c] = handlers[h].history
        /\ chat_histories[c] = handlers[k].history
        /\ heap[chat_histories[c]] =
              <<OwnUserTurn(h), OwnUserTurn(k),
                Turn("model", GenericErrorText), Turn("model", TimeoutText)>>

\* a part without the key "text"
LacksText(part) == part.t = "dict" /\ "text" \notin DOMAIN part.keys

\* the texts of the parts that carry one, in list order, as one text
RECURSIVE TextsSkipping(_)
TextsSkipping(q) ==
    IF q = <<>> THEN <<>>
    ELSE (IF HasTextStr(Head(q)) THEN Head(q).keys["text"].str ELSE <<>>)
             \o TextsSkipping(Tail(q))

\* C16 as stated: when some part of the first candidate has no text field,
\* extract_text returns the empty text, whatever the other parts carry
\* (every part being an object with a string for its text or without text).
C16_Original ==
    (/\ fn_out.done
     /\ HasParts(fn_in) /\ PartsOf(fn_in).t = "list"
     /\ \A i \in 1..Len(PartsOf(fn_in).items) :
           LacksText(PartsOf(fn_in).items[i]) \/ HasTextStr(PartsOf(fn_in).items[i])
     /\ \E i \in 1..Len(PartsOf(fn_in).items) : LacksText(PartsOf(fn_in).items[i]))
        => fn_out.val = Ok(<<>>)

\* C16 amended: a part without a text field, or whose text is null or empty,
\* is skipped: when every part is an object whose text is absent, null or a
\* string, extract_text returns the texts of the parts that carry one,
\* concatenated in list order and stripped; that is the empty text only
\* when no part carries a text with a character other than whitespace.
C16_TextlessSkipped ==
    (/\ fn_out.done
     /\ HasParts(fn_in) /\ PartsOf(fn_in).t = "list"
     /\ \A i \in 1..Len(PartsOf(fn_in).items) :
           \/ LacksText(PartsOf(fn_in).items[i])
           \/ HasTextStr(PartsOf(fn_in).items[i])
           \/ HasKey(PartsOf(fn_in).items[i], "text")
                 /\ PartsOf(fn_in).items[i].keys["text"].t = "null")
        => /\ fn_out.val = Ok(strip(TextsSkipping(PartsOf(fn_in).items)))
           /\ fn_out.val = Ok(<<>>) <=>
                 \A i \in 1..Len(PartsOf(fn_in).items) :
                     HasTextStr(PartsOf(fn_in).items[i]) =>
                         strip(PartsOf(fn_in).items[i].keys["text"].str) = <<>>

\* C16 witness: of a part carrying "hi " and a part without a text field
\* the result is "hi".
C16_Witness ==
    /\ fn_out.done
    /\ fn_in = Body(JList(<<Part(<<"h", "i", Space>>), JDict([functionCall |-> JNull])>>))
    /\ fn_out.val = Ok(<<"h", "i">>)

\* the step of handler h that ends its reply_text call
ReplyEnds(h) == handlers[h].pc = "replying" /\ handlers'[h].pc # "replying"

\* C17: a handler past the configuration check appends its user turn with
\* no POST issued yet, then issues its one POST, then appends the model turn
\* and only then calls reply_text with the trimmed text; the end of that
\* call, failed or not, leaves the history as it was, the model turn in it.
\* A handler that met no other handler of its chat and started on an empty
\* history has, with MAX_HISTORY >= 2, its user turn alone in the snapshot
\* and its user turn followed by its model turn in the store at the end.
C17_StepOrder ==
    [][\A h \in Handlers :
          /\ handlers'[h].pc # handlers[h].pc =>
                <<handlers[h].pc, handlers'[h].pc>> \in
                    {<<"idle", "done">>, <<"idle", "config_reply">>, <<"idle", "typing">>,
                     <<"config_reply", "done">>, <<"config_reply", "failed">>,
                     <<"typing", "posting">>, <<"typing", "failed">>,
                     <<"posting", "replying">>,
                     <<"replying", "done">>, <<"replying", "failed">>}
          /\ UserAppend(h) =>
                /\ handlers'[h].posts = 0 /\ handlers'[h].replies = 0
                /\ MAX_HISTORY >= 1 => UserTurnOf(h) = OwnUserTurn(h)
          /\ Snapshot(h) =>
                /\ handlers[h].posts = 0 /\ handlers'[h].posts = 1
                /\ handlers'[h].replies = 0
                /\ (handlers[h].alone /\ MAX_HISTORY >= 1) =>
                      handlers'[h].payload.contents = <<OwnUserTurn(h)>>
          /\ ModelAppend(h) =>
                /\ handlers[h].posts = 1 /\ handlers'[h].posts = 1
                /\ handlers[h].replies = 0 /\ handlers'[h].replies = 1
                /\ handlers'[h].sent = trim_for_telegram(handlers'[h].reply_text)
                /\ MAX_HISTORY >= 1 =>
                      Last(heap'[handlers[h].history]) = ModelTurnOf(h)
          /\ ReplyEnds(h) =>
                /\ handlers'[h].pc \in {"done", "failed"}
                /\ chat_histories[handlers[h].chat] = handlers[h].history =>
                      /\ StoredNext(handlers[h].chat) = Stored(handlers[h].chat)
                      /\ (handlers[h].alone /\ MAX_HISTORY >= 1) =>
                            Last(heap'[handlers[h].history]) =
                                Turn("model", handlers[h].reply_text)
                      /\ (handlers[h].alone /\ MAX_HISTORY >= 2) =>
                            heap'[handlers[h].history] =
                                <<OwnUserTurn(h), Turn("model", handlers[h].reply_text)>>]_vars

\* C17 witness: the only message so far ended with a failed send, and the
\* stored history holds its user turn followed by its model turn.
C17_Witness ==
    \E c \in Chats :
        /\ messages = 1
        /\ handlers[1].pc = "failed"
        /\ chat_histories[c] # None
        /\ heap[chat_histories[c]] = <<OwnUserTurn(1), Turn("model", TimeoutText)>>

\* the reply texts handle_message can choose, none of them trimmed
FullReplies == {ReplyFor(o).val : o \in Outcomes}

ModelTextsOf(turns) ==
    {turns[i].parts[1].text : i \in {j \in 1..Len(turns) : turns[j].role = "model"}}

\* C18: trim_for_telegram shapes the text that is sent and nothing else:
\* every model turn of every history, and of every snapshot given to a
\* POST, carries a reply text as it was chosen, in full; a handler that is
\* replying has sent the trimmed form of the text its model turn records.
C18_StoredUntrimmed ==
    /\ \A o \in DOMAIN heap : ModelTextsOf(heap[o]) \subseteq FullReplies
    /\ \A h \in Handlers :
          /\ ModelTextsOf(handlers[h].payload.contents) \subseteq FullReplies
          /\ handlers[h].pc = "replying" =>
                /\ handlers[h].reply_text \in FullReplies
                /\ handlers[h].sent = trim_for_telegram(handlers[h].reply_text)
                /\ (handlers[h].alone /\ MAX_HISTORY >= 1) =>
                      Last(heap[handlers[h].history]) = Turn("model", handlers[h].reply_text)

\* C18 witness: a reply longer than MAX_REPLY_CHARS is being sent trimmed
\* while the stored model turn has it in full, and a later message's
\* snapshot carries a model turn with a text longer than MAX_REPLY_CHARS.
C18_Witness ==
    \E h, k \in Handlers :
        /\ handlers[h].pc = "replying"
        /\ Len(handlers[h].reply_text) > MAX_REPLY_CHARS
        /\ handlers[h].sent # handlers[h].reply_text
        /\ handlers[k].pc = "posting"
        /\ handlers[h].reply_text \in ModelTextsOf(handlers[k].payload.contents)

\* C19: when the messages of a chat are handled one after the other and the
\* typing indicator never fails, user and model turns alternate in the
\* stored history of the chat, after evictions and resets too, and with no
\* handler of the chat in flight a history that is not empty ends with a
\* model turn.
C19_Alternation ==
    \A c \in Chats :
        /\ \A i \in 1..(Len(Stored(c).turns) - 1) :
              Stored(c).turns[i].role # Stored(c).turns[i + 1].role
        /\ (Serial(c) /\ Stored(c).turns # <<>>) => Last(Stored(c).turns).role = "model"

\* C19 witness: the stored history is full and starts with a model turn,
\* its user turn evicted by the user turn of the second message.
C19_Witness ==
    \E c \in Chats :
        /\ MAX_HISTORY = 2
        /\ Stored(c).turns = <<Turn("model", TimeoutText), OwnUserTurn(2)>>

\* handler h holds a deque that the store no longer holds for its chat
Detached(h) ==
    /\ handlers[h].pc \in {"typing", "posting", "replying"}
    /\ chat_histories[handlers[h].chat] # handlers[h].history

\* C20: a reset leaves the chat without entry; a handler whose deque was
\* detached by a reset while it waited appends its model turn to that deque,
\* and what the store holds for the chat does not change by it; a detached
\* deque never comes back into the store: a chat gets an entry only by the
\* user-turn append of a new message, and that entry is a new deque holding
\* this user turn and nothing else.
C20_DetachedAppend ==
    [][/\ \A c \in Chats :
             /\ NewChat(c) => StoredNext(c) = [history |-> None, turns |-> <<>>]
             /\ chat_histories'[c] # chat_histories[c] =>
                   \/ chat_histories'[c] = None
                   \/ /\ chat_histories[c] = None
                      /\ chat_histories'[c] \notin DOMAIN heap
                      /\ \E h \in Handlers :
                            /\ UserAppend(h)
                            /\ handlers'[h].chat = c
                            /\ handlers'[h].history = chat_histories'[c]
                            /\ StoredNext(c).turns = dequeAppend(<<>>, UserTurnOf(h))
       /\ \A h \in Handlers :
             (Detached(h) /\ ModelAppend(h)) =>
                /\ StoredNext(handlers[h].chat) = Stored(handlers[h].chat)
                /\ heap'[handlers[h].history] =
                      dequeAppend(heap[handlers[h].history], ModelTurnOf(h))
                /\ Detached(h)']_vars

\* C20 witness: a handler waits for its POST on a deque a reset detached,
\* still holding its user turn, and the store holds for the chat the deque
\* of a later message with that message's user turn alone.
C20_Witness ==
    \E h, k \in Handlers :
        /\ h < k
        /\ handlers[h].pc = "posting" /\ Detached(h)
        /\ heap[handlers[h].history] = <<OwnUserTurn(h)>>
        /\ handlers[k].chat = handlers[h].chat
        /\ handlers[k].pc \in {"typing", "posting"}
        /\ chat_histories[handlers[k].chat] = handlers[k].history
        /\ heap[handlers[k].history] = <<OwnUserTurn(k)>>

=============================================================================
